---- MODULE Spec2Model ----
(***************************************************************************)
(* Model of the storefront extraction pipeline of app.py:                  *)
(* extract_brand_context and its helpers, and the /extract endpoint that   *)
(* wraps it.  One run of the model is one extraction request.  Every       *)
(* network fetch is a step whose response is chosen by the environment.    *)
(*                                                                         *)
(* Text is modelled at two levels.  Link labels and URLs are sequences of  *)
(* characters, so that lower-casing, stripping and substring tests are     *)
(* computed as Python computes them.  Page text is a run-length sequence   *)
(* of tokens (a token is one stripped string of the page), so that the     *)
(* 5000-token and 5000-character limits are computed on real lengths.      *)
(* Prices are integers (a price in cents stands for the parsed float).     *)
(*                                                                         *)
(* Left out, as nothing modelled reads them: the meta description, the     *)
(* hero products, the social links, and the fields of a product other than *)
(* its id, variants and prices.                                            *)
(***************************************************************************)
EXTENDS Integers, Sequences, FiniteSets, TLC

\* ---------------------------------------------------------------- strings

\* The keywords and fixed paths of the source, as character sequences.
KwPrivacy == <<"p","r","i","v","a","c","y">>
KwReturn == <<"r","e","t","u","r","n">>
KwReturns == <<"r","e","t","u","r","n","s">>
KwRefund == <<"r","e","f","u","n","d">>
KwContact == <<"c","o","n","t","a","c","t">>
KwAbout == <<"a","b","o","u","t">>
KwTrack == <<"t","r","a","c","k">>
KwOrder == <<"o","r","d","e","r">>
KwTracking == <<"t","r","a","c","k","i","n","g">>
KwBlog == <<"b","l","o","g">>
KwBlogsPath == <<"/","b","l","o","g","s">>
KwFaq == <<"f","a","q">>
KwFaqPath == <<"/","f","a","q">>
KwHttp == <<"h","t","t","p">>
KwHash == <<"#">>
KwSchemeSep == <<":","/","/">>
PathCatalogLimit == <<"/","p","r","o","d","u","c","t","s",".","j","s","o","n","?","l","i","m","i","t","=","2","5","0">>
PathCatalog == <<"/","p","r","o","d","u","c","t","s",".","j","s","o","n">>
PathPrivacyPolicy == <<"/","p","o","l","i","c","i","e","s","/","p","r","i","v","a","c","y","-","p","o","l","i","c","y">>
PathRefundPolicy == <<"/","p","o","l","i","c","i","e","s","/","r","e","f","u","n","d","-","p","o","l","i","c","y">>

\* The vocabulary the modelled storefronts are written in.
WebsiteUrl == <<"h","t","t","p",":","/","/","s",".","i","o","/","h","o","m","e">>
LblPrivacy == <<"P","r","i","v","a","c","y">>
LblReturns == <<" ","R","e","t","u","r","n","s"," ">>
LblRefund == <<"R","e","f","u","n","d">>
LblContact == <<"C","o","n","t","a","c","t">>
LblAbout == <<"A","b","o","u","t">>
LblTrack == <<"T","r","a","c","k">>
LblOrder == <<"O","r","d","e","r">>
LblBlog == <<"B","l","o","g">>
LblFaq == <<"F","A","Q">>
LblShop == <<"S","h","o","p">>
HrefPrivacy == <<"/","p","r","i","v","a","c","y">>
HrefReturn == <<"/","r","e","t","u","r","n">>
HrefReturns == <<"/","r","e","t","u","r","n","s">>
HrefRefund == <<"/","r","e","f","u","n","d">>
HrefContact == <<"/","c","o","n","t","a","c","t">>
HrefAbout == <<"/","a","b","o","u","t">>
HrefTrack == <<"/","t","r","a","c","k">>
HrefOrder == <<"/","o","r","d","e","r">>
HrefBlogs == <<"/","b","l","o","g","s">>
HrefBlogsUpper == <<"/","B","l","o","g","s">>
HrefFaq == <<"/","f","a","q">>
HrefShop == <<"/","s","h","o","p">>
HrefHelp == <<"/","h","e","l","p">>
HrefFragment == <<"#","t","o","p">>
HrefExternal == <<"h","t","t","p",":","/","/","t",".","c","o","/","a","b","o","u","t">>

UpperLetters == <<"A","B","C","D","E","F","G","H","I","J","K","L","M","N","O","P","Q","R","S","T","U","V","W","X","Y","Z">>
LowerLetters == <<"a","b","c","d","e","f","g","h","i","j","k","l","m","n","o","p","q","r","s","t","u","v","w","x","y","z">>

LowerChar(c) ==
    IF \E i \in 1..Len(UpperLetters) : UpperLetters[i] = c
    THEN LowerLetters[CHOOSE i \in 1..Len(UpperLetters) : UpperLetters[i] = c]
    ELSE c

\* str.lower()
Lower(s) == [i \in 1..Len(s) |-> LowerChar(s[i])]

\* Python's `sub in s` on strings
Contains(sub, s) ==
    \E i \in 0..(Len(s) - Len(sub)) : SubSeq(s, i + 1, i + Len(sub)) = sub

\* str.startswith
StartsWith(s, prefix) ==
    Len(prefix) <= Len(s) /\ SubSeq(s, 1, Len(prefix)) = prefix

\* str.strip(): the string without its leading and trailing blanks
Strip(s) ==
    LET nonblank == {i \in 1..Len(s) : s[i] # " "}
    IN  IF nonblank = {} THEN <<>>
        ELSE SubSeq(s, CHOOSE i \in nonblank : \A j \in nonblank : i <= j,
                       CHOOSE i \in nonblank : \A j \in nonblank : j <= i)

\* scheme://netloc of a URL (urlparse; the path starts at the first "/" after the netloc)
normalize_base(url) ==
    LET seps  == {i \in 1..(Len(url) - 2) : SubSeq(url, i, i + 2) = KwSchemeSep}
        sep   == CHOOSE i \in seps : \A j \in seps : i <= j
        after == {i \in (sep + 3)..Len(url) : url[i] = "/"}
        stop  == IF after = {} THEN Len(url)
                 ELSE (CHOOSE i \in after : \A j \in after : i <= j) - 1
    IN  SubSeq(url, 1, stop)

\* urljoin(base, ref) for a base that is an origin: an absolute URL replaces the
\* base, a rooted path is appended to it, any other reference hangs under "/".
urljoin(base, ref) ==
    IF Contains(KwSchemeSep, ref) THEN ref
    ELSE IF StartsWith(ref, <<"/">>) THEN base \o ref
    ELSE IF ref = <<>> THEN base
    ELSE IF StartsWith(ref, KwHash) THEN base \o ref
    ELSE base \o <<"/">> \o ref

Min(a, b) == IF a <= b THEN a ELSE b
Max(a, b) == IF a >= b THEN a ELSE b

\* The absent value of an optional URL.  A resolved URL is never empty, and the
\* source tests optional URLs by truthiness only.
None == <<>>

\* ------------------------------------------------------------- page text

\* A text is a sequence of runs [tok, n]: n consecutive occurrences of the
\* token tok.  The tokens of the model and what the two regular expressions
\* find in each:
\*   "w"           a word of one character
\*   "L"           one unbroken string of LongTokenLen characters
\*   "a@x.io" ...  e-mail addresses (EMAIL_RE matches the whole token)
\*   "2024"        four digits: PHONE_RE needs five, no match
\*   "12345"       five digits: PHONE_RE matches, the filter (>= 6) drops it
\*   "5551234567"  ten digits: PHONE_RE matches, the filter keeps it
LongTokenLen == 6000
EmailTokens == {"a@x.io", "b@x.io"}
NumberTokens == {"2024", "12345", "5551234567"}

TokLen(tok) ==
    CASE tok = "w" -> 1
      [] tok = "L" -> LongTokenLen
      [] tok \in EmailTokens -> 6
      [] tok = "2024" -> 4
      [] tok = "12345" -> 5
      [] tok = "5551234567" -> 10

DigitCount(tok) ==
    CASE tok = "2024" -> 4
      [] tok = "12345" -> 5
      [] tok = "5551234567" -> 10
      [] OTHER -> 0

PhoneMinMatch == 5
PhoneMinDigits == 6
TextTokenLimit == 5000
RawPageLimit == 5000

\* EMAIL_RE.findall(text), as the set of the values found
EmailMatches(text) ==
    {text[i].tok : i \in {j \in 1..Len(text) : text[j].tok \in EmailTokens}}

\* PHONE_RE.findall(text), as the set of the values found
PhoneMatches(text) ==
    {text[i].tok : i \in {j \in 1..Len(text) : DigitCount(text[j].tok) >= PhoneMinMatch}}

\* All the orders a Python list(set(...)) can come out in.
Orderings(S) ==
    {s \in [1..Cardinality(S) -> S] : \A i, j \in 1..Cardinality(S) : s[i] = s[j] => i = j}

\* find_emails_phones: the possible results, one per order of the two lists
find_emails_phones(text) ==
    [emails : Orderings(EmailMatches(text)),
     phones : Orderings({p \in PhoneMatches(text) : DigitCount(p) >= PhoneMinDigits})]

RECURSIVE TokenCount(_)
TokenCount(text) ==
    IF text = <<>> THEN 0 ELSE Head(text).n + TokenCount(Tail(text))

\* list(texts)[:k]
RECURSIVE TakeTokens(_, _)
TakeTokens(text, k) ==
    IF text = <<>> \/ k <= 0 THEN <<>>
    ELSE IF Head(text).n >= k THEN <<[tok |-> Head(text).tok, n |-> k]>>
    ELSE <<Head(text)>> \o TakeTokens(Tail(text), k - Head(text).n)

RECURSIVE TokenChars(_)
TokenChars(text) ==
    IF text = <<>> THEN 0
    ELSE Head(text).n * TokLen(Head(text).tok) + TokenChars(Tail(text))

\* len(" ".join(tokens))
CharLen(text) ==
    IF text = <<>> THEN 0 ELSE TokenChars(text) + TokenCount(text) - 1

\* An optional text: None, or a string (possibly the empty one).
NoText == [none |-> TRUE, text |-> <<>>]
SomeText(text) == [none |-> FALSE, text |-> text]

\* Python truthiness of an optional text
Truthy(t) == ~t.none /\ t.text # <<>>

\* The whole text, without the slice.
RawSlice_Uncut(text) == [of |-> text, len |-> CharLen(text)]

\* s[:RawPageLimit]: the prefix of s of at most RawPageLimit characters,
\* kept as the text it is cut from and its length
RawSlice(text) == [of |-> text, len |-> Min(CharLen(text), RawPageLimit)]

\* ------------------------------------------------------------- responses

\* A response: status 0 stands for a transport failure (requests.get raised);
\* doc is the parsed HTML body, json the body read as JSON.
NoDoc == [title |-> "absent", anchors |-> <<>>, body |-> <<>>, strings |-> <<>>,
          containers |-> <<>>, details |-> <<>>]
NoJson == [t |-> "invalid", hasProducts |-> FALSE, ptype |-> "list", products |-> <<>>]
Failure == [status |-> 0, doc |-> NoDoc, json |-> NoJson]
HtmlResponse(st, d) == [status |-> st, doc |-> d, json |-> NoJson]
JsonResponse(st, j) == [status |-> st, doc |-> NoDoc, json |-> j]

\* safe_get without raise_for_status: only a transport failure raises.
SafeGetRaises_TransportOnly(resp) == resp.status = 0

\* safe_get: does the call raise?  requests.get raised, or raise_for_status
\* did (a 4xx or 5xx status).
SafeGetRaises(resp) ==
    resp.status = 0 \/ (resp.status >= 400 /\ resp.status < 600)

\* extract_text_from_url: the visible text of the page, cut to TextTokenLimit
\* tokens; the empty string when safe_get raised.
extract_text_from_url(resp) ==
    IF SafeGetRaises(resp) THEN <<>>
    ELSE TakeTokens(resp.doc.strings, TextTokenLimit)

\* --------------------------------------------------------------- catalog

\* JSON values of a catalog body.
\*   a price:    [t, v]  t in absent (no "price" key), null, numstr (a string
\*               that float() parses to v), num (the JSON number v), badstr (a
\*               non-empty string float() rejects), emptystr (the string "")
\*   a variant:  [t, price]  t in dict, str (a JSON string where a map belongs)
\*   variants:   [t, items]  t in absent, null, str, list
\*   a record:   [t, id, variants]  t in dict, str
Price(t, v) == [t |-> t, v |-> v]
Variant(p) == [t |-> "dict", price |-> p]
BadVariant == [t |-> "str", price |-> Price("absent", 0)]
VariantList(items) == [t |-> "list", items |-> items]
NoVariants(t) == [t |-> t, items |-> <<>>]
Record(id, variants) == [t |-> "dict", id |-> id, variants |-> variants]
BadRecord(id) == [t |-> "str", id |-> id, variants |-> NoVariants("absent")]

\* An Optional[float]
NoPrice == [some |-> FALSE, v |-> 0]
SomePrice(v) == [some |-> TRUE, v |-> v]

\* v.get("price") is not None
HasPrice(v) == v.price.t \notin {"absent", "null"}

\* float(v.get("price", 0) or 0) raises
FloatRaises(v) == v.price.t = "badstr"

\* float(v.get("price", 0) or 0): a falsy price (the empty string, zero) is 0
FloatOf(v) == IF v.price.t \in {"numstr", "num"} THEN v.price.v ELSE 0

\* The try block of the normalization loop raises: the variants are no list
\* (null is not iterable; the characters of a string have no get), a variant is
\* no map, or a price that is present does not parse.
PriceDerivationRaises(p) ==
    \/ p.t # "dict"
    \/ p.variants.t \in {"null", "str"}
    \/ /\ p.variants.t = "list"
       /\ \E i \in 1..Len(p.variants.items) :
            LET v == p.variants.items[i]
            IN  v.t # "dict" \/ (HasPrice(v) /\ FloatRaises(v))

\* prices = [float(...) for v in variants if v.get("price") is not None]
PriceList(p) ==
    LET items == IF p.variants.t = "list" THEN p.variants.items ELSE <<>>
        priced == SelectSeq(items, HasPrice)
    IN  [i \in 1..Len(priced) |-> FloatOf(priced[i])]

SeqMin(s) == CHOOSE x \in {s[i] : i \in 1..Len(s)} : \A j \in 1..Len(s) : x <= s[j]
SeqMax(s) == CHOOSE x \in {s[i] : i \in 1..Len(s)} : \A j \in 1..Len(s) : x >= s[j]

\* One pass of the normalization loop: the normalized entry of a record that
\* is a map.  price_min and price_max stay None when the try block raised or
\* found no price.
NormalizeRecord(p) ==
    LET priced == ~PriceDerivationRaises(p) /\ PriceList(p) # <<>>
    IN  [id |-> p.id,
         variants |-> p.variants,
         price_min |-> IF priced THEN SomePrice(SeqMin(PriceList(p))) ELSE NoPrice,
         price_max |-> IF priced THEN SomePrice(SeqMax(PriceList(p))) ELSE NoPrice]

\* The loop raises outside its try block: p.get("images") on a record that is
\* no map, or the iteration itself when "products" is null.
NormalizationRaises(json) ==
    \/ json.ptype # "list"
    \/ \E i \in 1..Len(json.products) : json.products[i].t # "dict"

Normalize(products) == [i \in 1..Len(products) |-> NormalizeRecord(products[i])]

\* The acceptance test without `r.status_code == 200`.
CatalogAccepted_AnyStatus(resp) ==
    /\ resp.status # 0
    /\ resp.json.t = "dict"
    /\ resp.json.hasProducts

\* A probe response is accepted: status 200, the body parses as JSON, is an
\* object and has a "products" member.
CatalogAccepted(resp) ==
    /\ resp.status = 200
    /\ resp.json.t = "dict"
    /\ resp.json.hasProducts

\* tried_urls
tried_urls(base) == <<urljoin(base, PathCatalogLimit), urljoin(base, PathCatalog)>>

\* Product(**p): the validation of the variants field, List[Dict[str, Any]].
\* A missing "variants" was replaced by [] in the normalization.
ProductValid(n) ==
    \/ n.variants.t = "absent"
    \/ /\ n.variants.t = "list"
       /\ \A i \in 1..Len(n.variants.items) : n.variants.items[i].t = "dict"

\* The Product built from a normalized entry.
ProductOf(n) ==
    [id |-> n.id,
     variants |-> IF n.variants.t = "list" THEN n.variants.items ELSE <<>>,
     price_min |-> n.price_min,
     price_max |-> n.price_max]

\* ----------------------------------------------------------------- links

\* A dict as the sequence of its items in insertion order: assigning to a key
\* that is present replaces its value in place.
DictPut(d, k, v) ==
    IF \E i \in 1..Len(d) : d[i].key = k
    THEN [i \in 1..Len(d) |-> IF d[i].key = k THEN [key |-> k, url |-> v] ELSE d[i]]
    ELSE Append(d, [key |-> k, url |-> v])

\* extract_nav_links: anchors is the sequence of the a[href] elements of the
\* page, in document order, each [text, href].
RECURSIVE NavLinksFrom(_, _, _)
NavLinksFrom(anchors, base, links) ==
    IF anchors = <<>> THEN links
    ELSE LET href == Strip(Head(anchors).href)
             text == Strip(Head(anchors).text)
             full == IF StartsWith(href, KwHttp) THEN href ELSE urljoin(base, href)
         IN  IF href = <<>> \/ StartsWith(href, KwHash)
             THEN NavLinksFrom(Tail(anchors), base, links)
             ELSE NavLinksFrom(Tail(anchors), base,
                               DictPut(links, IF text # <<>> THEN text ELSE full, full))

extract_nav_links(doc, base) == NavLinksFrom(doc.anchors, base, <<>>)

\* The tests of the role scans, on a link's key and URL.
IsPrivacyLink(key, url) ==
    Contains(KwPrivacy, Lower(key)) \/ Contains(KwPrivacy, Lower(url))

IsReturnsLink(key, url) ==
    \/ Contains(KwReturn, Lower(key))
    \/ Contains(KwRefund, Lower(key))
    \/ Contains(KwRefund, Lower(url))
    \/ Contains(KwReturns, Lower(url))

IsContactLink(key, url) ==
    Contains(KwContact, Lower(key)) \/ Contains(KwContact, Lower(url))

IsAboutLink(key, url) ==
    Contains(KwAbout, Lower(key)) \/ Contains(KwAbout, Lower(url))

\* The tracking test extended to the URL.
IsTrackingLink_WithUrl(key, url) ==
    \/ Contains(KwTrack, Lower(key)) \/ Contains(KwTrack, Lower(url))
    \/ Contains(KwOrder, Lower(key)) \/ Contains(KwOrder, Lower(url))

IsTrackingLink(key, url) ==
    \/ Contains(KwTrack, Lower(key))
    \/ Contains(KwOrder, Lower(key))
    \/ Contains(KwTracking, Lower(key))

IsBlogLink(key, url) ==
    Contains(KwBlog, Lower(key)) \/ Contains(KwBlogsPath, url)

IsFaqLink(key, url) ==
    Contains(KwFaq, Lower(key)) \/ Contains(KwFaqPath, Lower(url))

\* The test the scan for a role applies to a link.
LinkHasRole(role, key, url) ==
    CASE role = "privacy" -> IsPrivacyLink(key, url)
      [] role = "returns" -> IsReturnsLink(key, url)
      [] role = "contact" -> IsContactLink(key, url)
      [] role = "about" -> IsAboutLink(key, url)
      [] role = "tracking" -> IsTrackingLink(key, url)
      [] role = "blog" -> IsBlogLink(key, url)
      [] role = "faq" -> IsFaqLink(key, url)

\* A scan that assigns on every match: the last matching link wins.
LastMatching(links, role) ==
    LET hits == {i \in 1..Len(links) : LinkHasRole(role, links[i].key, links[i].url)}
    IN  IF hits = {} THEN None
        ELSE links[CHOOSE i \in hits : \A j \in hits : j <= i].url

\* A scan that breaks on the first match.
FirstMatching(links, role) ==
    LET hits == {i \in 1..Len(links) : LinkHasRole(role, links[i].key, links[i].url)}
    IN  IF hits = {} THEN None
        ELSE links[CHOOSE i \in hits : \A j \in hits : i <= j].url

\* find_policy_pages
find_policy_pages(links) ==
    [privacy |-> LastMatching(links, "privacy"),
     returns |-> LastMatching(links, "returns")]

\* ------------------------------------------------------------------ FAQs

\* A document's FAQ-relevant structure:
\*   containers  the elements whose class or id matches "faq", in document
\*               order, each [byClass, byId, questions]; a question element
\*               is [q, hasNext, next, rest]: its text, whether it has a next
\*               sibling, the sibling's text, the parent's text without q
\*   details     the details elements, each [summary, rest]: the summary's
\*               text ("" when there is none) and the element's text without it
AnswerOf(q) == IF q.hasNext THEN q.next ELSE q.rest

RECURSIVE QuestionPairs(_)
QuestionPairs(questions) ==
    IF questions = <<>> THEN <<>>
    ELSE (IF Head(questions).q # ""
          THEN <<[q |-> Head(questions).q, a |-> AnswerOf(Head(questions))]>>
          ELSE <<>>) \o QuestionPairs(Tail(questions))

RECURSIVE ContainerPairs(_)
ContainerPairs(cands) ==
    IF cands = <<>> THEN <<>>
    ELSE QuestionPairs(Head(cands).questions) \o ContainerPairs(Tail(cands))

RECURSIVE DetailsPairs(_)
DetailsPairs(details) ==
    IF details = <<>> THEN <<>>
    ELSE (IF Head(details).summary # ""
          THEN <<[q |-> Head(details).summary, a |-> Head(details).rest]>>
          ELSE <<>>) \o DetailsPairs(Tail(details))

ByClass(c) == c.byClass
ById(c) == c.byId

\* extract_faqs_from_page
extract_faqs_from_page(doc) ==
    LET candidates == SelectSeq(doc.containers, ByClass) \o SelectSeq(doc.containers, ById)
        faqs == ContainerPairs(candidates)
    IN  IF faqs # <<>> THEN faqs ELSE DetailsPairs(doc.details)

\* ----------------------------------------------------------------- state

VARIABLES
    pc,            \* the step of extract_brand_context about to run
    requests,      \* the fetches issued so far, each [step, url, resp]
    soup,          \* the parsed homepage
    probe,         \* try_products_json: index into tried_urls
    products_raw,  \* try_products_json: the accepted "products" member
    products,      \* the catalog, a sequence of Product
    nav_links,     \* the homepage's link index
    privacy_url, returns_url,
    privacy_text, returns_text,
    contacts,      \* [emails, phones], two lists
    contact_url, about_url, tracking_url, blogs,
    about_text, contact_text,
    faq_url, faqs,
    important, raw_pages,
    result         \* what /extract answers: "none" while running, "profile",
                   \* "unreachable" (HTTPException 401) or "internal" (500)

vars == <<pc, requests, soup, probe, products_raw, products, nav_links,
          privacy_url, returns_url, privacy_text, returns_text, contacts,
          contact_url, about_url, tracking_url, blogs, about_text, contact_text,
          faq_url, faqs, important, raw_pages, result>>

website_url == WebsiteUrl
base == normalize_base(website_url)

EmptyDict == [k \in {} |-> None]

Init ==
    /\ pc = "fetch_home"
    /\ requests = <<>>
    /\ soup = NoDoc
    /\ probe = 1
    /\ products_raw = NoJson
    /\ products = <<>>
    /\ nav_links = <<>>
    /\ privacy_url = None /\ returns_url = None
    /\ privacy_text = NoText /\ returns_text = NoText
    /\ contacts = [emails |-> <<>>, phones |-> <<>>]
    /\ contact_url = None /\ about_url = None /\ tracking_url = None /\ blogs = None
    /\ about_text = NoText /\ contact_text = NoText
    /\ faq_url = None /\ faqs = <<>>
    /\ important = EmptyDict /\ raw_pages = EmptyDict
    /\ result = "none"

Logged(step, url, resp) == Append(requests, [step |-> step, url |-> url, resp |-> resp])

\* The request ends with an exception: `answer` is what /extract responds.
Raise(answer) == pc' = "done" /\ result' = answer

\* Lines 209-222: fetch the homepage (fatal when safe_get raises), parse it,
\* read the title.  soup.title.string is None for a title element without a
\* single text child, and .strip() then raises AttributeError.
FetchHome(Homes) ==
    /\ pc = "fetch_home"
    /\ \E resp \in Homes :
         /\ requests' = Logged("home", website_url, resp)
         /\ IF SafeGetRaises(resp)
            THEN Raise("unreachable") /\ soup' = soup
            ELSE /\ soup' = resp.doc
                 /\ IF resp.doc.title = "nostring"
                    THEN Raise("internal")
                    ELSE pc' = "catalog" /\ result' = result
    /\ UNCHANGED <<probe, products_raw, products, nav_links, privacy_url, returns_url,
                   privacy_text, returns_text, contacts, contact_url, about_url,
                   tracking_url, blogs, about_text, contact_text, faq_url, faqs,
                   important, raw_pages>>

\* Lines 109-119: one pass of the probe loop of try_products_json.  The loop
\* breaks on the first accepted response; any exception of the pass is logged
\* and the loop goes on.
ProbeCatalog(Bodies) ==
    /\ pc = "catalog"
    /\ \E resp \in Bodies :
         /\ requests' = Logged("catalog", tried_urls(base)[probe], resp)
         /\ IF CatalogAccepted(resp)
            THEN /\ products_raw' = resp.json
                 /\ pc' = "normalize"
                 /\ probe' = probe
            ELSE /\ products_raw' = products_raw
                 /\ IF probe < Len(tried_urls(base))
                    THEN pc' = "catalog" /\ probe' = probe + 1
                    ELSE pc' = "normalize" /\ probe' = probe
    /\ UNCHANGED <<soup, products, nav_links, privacy_url, returns_url,
                   privacy_text, returns_text, contacts, contact_url, about_url,
                   tracking_url, blogs, about_text, contact_text, faq_url, faqs,
                   important, raw_pages, result>>

\* The Products of line 226 cannot be built: a normalized entry fails validation.
ValidationRaises(normalized) ==
    \E i \in 1..Len(normalized) : ~ProductValid(normalized[i])

\* Lines 120-148 and 226: normalize the accepted records, then build a Product
\* from each.  An exception of either part leaves extract_brand_context and is
\* answered by /extract as an internal error.
BuildCatalog ==
    /\ pc = "normalize"
    /\ IF NormalizationRaises(products_raw) \/ ValidationRaises(Normalize(products_raw.products))
       THEN Raise("internal") /\ products' = products
       ELSE /\ products' = [i \in 1..Len(products_raw.products) |->
                               ProductOf(Normalize(products_raw.products)[i])]
            /\ pc' = "links"
            /\ result' = result
    /\ UNCHANGED <<requests, soup, probe, products_raw, nav_links, privacy_url, returns_url,
                   privacy_text, returns_text, contacts, contact_url, about_url,
                   tracking_url, blogs, about_text, contact_text, faq_url, faqs,
                   important, raw_pages>>

\* Lines 252-253: index the homepage's links, scan them for the policy pages.
ScanLinks ==
    /\ pc = "links"
    /\ nav_links' = extract_nav_links(soup, base)
    /\ privacy_url' = find_policy_pages(nav_links').privacy
    /\ returns_url' = find_policy_pages(nav_links').returns
    /\ pc' = "privacy_probe"
    /\ UNCHANGED <<requests, soup, probe, products_raw, products,
                   privacy_text, returns_text, contacts, contact_url, about_url,
                   tracking_url, blogs, about_text, contact_text, faq_url, faqs,
                   important, raw_pages, result>>

\* A probe that takes any answer for a hit.
ProbedUrl_AnyAnswer(candidate, resp) == IF resp.status # 0 THEN candidate ELSE None

\* The URL a fallback probe leaves the role with: the candidate on a 200,
\* the role unresolved on any other status or an exception.
ProbedUrl(candidate, resp) == IF resp.status = 200 THEN candidate ELSE None

\* Lines 256-263: the privacy role is unresolved, probe the conventional path.
ProbePrivacy(Probes) ==
    /\ pc = "privacy_probe"
    /\ IF privacy_url = None
       THEN \E resp \in Probes :
              /\ requests' = Logged("privacy_probe", urljoin(base, PathPrivacyPolicy), resp)
              /\ privacy_url' = ProbedUrl(urljoin(base, PathPrivacyPolicy), resp)
       ELSE UNCHANGED <<requests, privacy_url>>
    /\ pc' = "returns_probe"
    /\ UNCHANGED <<soup, probe, products_raw, products, nav_links, returns_url,
                   privacy_text, returns_text, contacts, contact_url, about_url,
                   tracking_url, blogs, about_text, contact_text, faq_url, faqs,
                   important, raw_pages, result>>

\* Lines 264-271: the same for the returns role.
ProbeReturns(Probes) ==
    /\ pc = "returns_probe"
    /\ IF returns_url = None
       THEN \E resp \in Probes :
              /\ requests' = Logged("returns_probe", urljoin(base, PathRefundPolicy), resp)
              /\ returns_url' = ProbedUrl(urljoin(base, PathRefundPolicy), resp)
       ELSE UNCHANGED <<requests, returns_url>>
    /\ pc' = "privacy_text"
    /\ UNCHANGED <<soup, probe, products_raw, products, nav_links, privacy_url,
                   privacy_text, returns_text, contacts, contact_url, about_url,
                   tracking_url, blogs, about_text, contact_text, faq_url, faqs,
                   important, raw_pages, result>>

\* Line 274
FetchPrivacyText(Pages) ==
    /\ pc = "privacy_text"
    /\ IF privacy_url # None
       THEN \E resp \in Pages :
              /\ requests' = Logged("privacy_text", privacy_url, resp)
              /\ privacy_text' = SomeText(extract_text_from_url(resp))
       ELSE UNCHANGED <<requests, privacy_text>>
    /\ pc' = "returns_text"
    /\ UNCHANGED <<soup, probe, products_raw, products, nav_links, privacy_url, returns_url,
                   returns_text, contacts, contact_url, about_url,
                   tracking_url, blogs, about_text, contact_text, faq_url, faqs,
                   important, raw_pages, result>>

\* Line 275
FetchReturnsText(Pages) ==
    /\ pc = "returns_text"
    /\ IF returns_url # None
       THEN \E resp \in Pages :
              /\ requests' = Logged("returns_text", returns_url, resp)
              /\ returns_text' = SomeText(extract_text_from_url(resp))
       ELSE UNCHANGED <<requests, returns_text>>
    /\ pc' = "contacts"
    /\ UNCHANGED <<soup, probe, products_raw, products, nav_links, privacy_url, returns_url,
                   privacy_text, contacts, contact_url, about_url,
                   tracking_url, blogs, about_text, contact_text, faq_url, faqs,
                   important, raw_pages, result>>

\* Lines 281-299: the e-mails and phones of the homepage's raw body, then the
\* scan of the link index for the contact, about, tracking and blog roles.
HomeContacts ==
    /\ pc = "contacts"
    /\ contacts' \in find_emails_phones(soup.body)
    /\ contact_url' = LastMatching(nav_links, "contact")
    /\ about_url' = LastMatching(nav_links, "about")
    /\ tracking_url' = LastMatching(nav_links, "tracking")
    /\ blogs' = LastMatching(nav_links, "blog")
    /\ pc' = "about_text"
    /\ UNCHANGED <<requests, soup, probe, products_raw, products, nav_links,
                   privacy_url, returns_url, privacy_text, returns_text,
                   about_text, contact_text, faq_url, faqs, important, raw_pages, result>>

\* Line 301
FetchAboutText(Pages) ==
    /\ pc = "about_text"
    /\ IF about_url # None
       THEN \E resp \in Pages :
              /\ requests' = Logged("about_text", about_url, resp)
              /\ about_text' = SomeText(extract_text_from_url(resp))
       ELSE UNCHANGED <<requests, about_text>>
    /\ pc' = "contact_text"
    /\ UNCHANGED <<soup, probe, products_raw, products, nav_links, privacy_url, returns_url,
                   privacy_text, returns_text, contacts, contact_url, about_url,
                   tracking_url, blogs, contact_text, faq_url, faqs,
                   important, raw_pages, result>>

\* Line 302
FetchContactText(Pages) ==
    /\ pc = "contact_text"
    /\ IF contact_url # None
       THEN \E resp \in Pages :
              /\ requests' = Logged("contact_text", contact_url, resp)
              /\ contact_text' = SomeText(extract_text_from_url(resp))
       ELSE UNCHANGED <<requests, contact_text>>
    /\ pc' = "merge"
    /\ UNCHANGED <<soup, probe, products_raw, products, nav_links, privacy_url, returns_url,
                   privacy_text, returns_text, contacts, contact_url, about_url,
                   tracking_url, blogs, about_text, faq_url, faqs,
                   important, raw_pages, result>>

\* The merge without the membership test.
AppendNew_All(list, more) == list \o more

\* for e in more: if e not in list: list.append(e)
RECURSIVE AppendNew(_, _)
AppendNew(list, more) ==
    IF more = <<>> THEN list
    ELSE AppendNew(IF \E i \in 1..Len(list) : list[i] = Head(more)
                   THEN list ELSE Append(list, Head(more)),
                   Tail(more))

\* One pass of the loop of lines 305-313 over a page text and what
\* find_emails_phones found in it.
MergeFound(c, t, more) ==
    IF Truthy(t)
    THEN [emails |-> AppendNew(c.emails, more.emails),
          phones |-> AppendNew(c.phones, more.phones)]
    ELSE c

\* Lines 305-313: merge what the about and contact pages add.
MergeContacts ==
    /\ pc = "merge"
    /\ \E fromAbout \in find_emails_phones(about_text.text) :
         \E fromContact \in find_emails_phones(contact_text.text) :
            contacts' = MergeFound(MergeFound(contacts, about_text, fromAbout),
                                   contact_text, fromContact)
    /\ pc' = "faq_page"
    /\ UNCHANGED <<requests, soup, probe, products_raw, products, nav_links,
                   privacy_url, returns_url, privacy_text, returns_text,
                   contact_url, about_url, tracking_url, blogs, about_text, contact_text,
                   faq_url, faqs, important, raw_pages, result>>

\* The pairs of the dedicated FAQ page: none when its fetch raised.
FaqPagePairs(resp) ==
    IF SafeGetRaises(resp) THEN <<>> ELSE extract_faqs_from_page(resp.doc)

\* Lines 316-327: find the FAQ link, fetch the page and extract from it.
FetchFaqPage(Pages) ==
    /\ pc = "faq_page"
    /\ faq_url' = FirstMatching(nav_links, "faq")
    /\ IF faq_url' # None
       THEN \E resp \in Pages :
              /\ requests' = Logged("faq_page", faq_url', resp)
              /\ faqs' = FaqPagePairs(resp)
       ELSE UNCHANGED <<requests, faqs>>
    /\ pc' = "faq_home"
    /\ UNCHANGED <<soup, probe, products_raw, products, nav_links, privacy_url, returns_url,
                   privacy_text, returns_text, contacts, contact_url, about_url,
                   tracking_url, blogs, about_text, contact_text,
                   important, raw_pages, result>>

\* The fallback with the homepage taking precedence.
FaqsAfterFallback_HomeFirst(found, home) ==
    IF extract_faqs_from_page(home) # <<>> THEN extract_faqs_from_page(home) ELSE found

\* Lines 329-330: the FAQs after the fallback to the homepage.
FaqsAfterFallback(found, home) ==
    IF found = <<>> THEN extract_faqs_from_page(home) ELSE found

FaqFallback ==
    /\ pc = "faq_home"
    /\ faqs' = FaqsAfterFallback(faqs, soup)
    /\ pc' = "assemble"
    /\ UNCHANGED <<requests, soup, probe, products_raw, products, nav_links,
                   privacy_url, returns_url, privacy_text, returns_text, contacts,
                   contact_url, about_url, tracking_url, blogs, about_text, contact_text,
                   faq_url, important, raw_pages, result>>

\* Lines 333-343: the important-links map.
ImportantLinks(contact, privacy, returns, tracking, blog) ==
    LET url == [k \in {"contact", "privacy_policy", "return_refund_policy",
                       "order_tracking", "blogs"} |->
                  CASE k = "contact" -> contact
                    [] k = "privacy_policy" -> privacy
                    [] k = "return_refund_policy" -> returns
                    [] k = "order_tracking" -> tracking
                    [] k = "blogs" -> blog]
    IN  [k \in {j \in DOMAIN url : url[j] # None} |-> url[k]]

\* Lines 346-354: the raw-pages map.
RawPages(about, contact, privacy, returns) ==
    LET text == [k \in {"about", "contact", "privacy_policy", "return_refund_policy"} |->
                   CASE k = "about" -> about
                     [] k = "contact" -> contact
                     [] k = "privacy_policy" -> privacy
                     [] k = "return_refund_policy" -> returns]
    IN  [k \in {j \in DOMAIN text : Truthy(text[j])} |-> RawSlice(text[k].text)]

\* Lines 333-370: build the two maps and the BrandContext; /extract returns it.
Assemble ==
    /\ pc = "assemble"
    /\ important' = ImportantLinks(contact_url, privacy_url, returns_url, tracking_url, blogs)
    /\ raw_pages' = RawPages(about_text, contact_text, privacy_text, returns_text)
    /\ result' = "profile"
    /\ pc' = "done"
    /\ UNCHANGED <<requests, soup, probe, products_raw, products, nav_links,
                   privacy_url, returns_url, privacy_text, returns_text, contacts,
                   contact_url, about_url, tracking_url, blogs, about_text, contact_text,
                   faq_url, faqs>>

\* The next-state relation over an environment: the sets of responses the
\* storefront may give to each kind of fetch.
Next(env) ==
    \/ FetchHome(env.homes)
    \/ ProbeCatalog(env.catalogs)
    \/ BuildCatalog
    \/ ScanLinks
    \/ ProbePrivacy(env.probes)
    \/ ProbeReturns(env.probes)
    \/ FetchPrivacyText(env.policy_pages)
    \/ FetchReturnsText(env.policy_pages)
    \/ HomeContacts
    \/ FetchAboutText(env.info_pages)
    \/ FetchContactText(env.info_pages)
    \/ MergeContacts
    \/ FetchFaqPage(env.faq_pages)
    \/ FaqFallback
    \/ Assemble

\* ---------------------------------------------------------- environments

MaxLinks == 2
MaxVariants == 2
MaxRecords == 2
MaxMatches == 2

SeqsUpTo(S, n) == UNION {[1..k -> S] : k \in 0..n}

Anchor(text, href) == [text |-> text, href |-> href]
Run(tok, n) == [tok |-> tok, n |-> n]

Page(title, anchors, body, strings, containers, details) ==
    [title |-> title, anchors |-> anchors, body |-> body, strings |-> strings,
     containers |-> containers, details |-> details]

\* FAQ markup
Question(q, hasNext, next, rest) == [q |-> q, hasNext |-> hasNext, next |-> next, rest |-> rest]
Container(byClass, byId, questions) == [byClass |-> byClass, byId |-> byId, questions |-> questions]
Details(summary, rest) == [summary |-> summary, rest |-> rest]

FaqShape(containers, details) == [containers |-> containers, details |-> details]
NoFaqMarkup == FaqShape(<<>>, <<>>)
HomeFaqShapes ==
    {NoFaqMarkup,
     FaqShape(<<Container(TRUE, FALSE, <<Question("HQ1", TRUE, "HA1", ""),
                                         Question("", TRUE, "HA0", ""),
                                         Question("HQ2", FALSE, "", "HA2")>>)>>,
              <<Details("HQ3", "HA3")>>),
     FaqShape(<<Container(FALSE, TRUE, <<Question("", FALSE, "", "HA0")>>)>>,
              <<Details("HQ3", "HA3"), Details("", "HA0")>>),
     FaqShape(<<Container(TRUE, TRUE, <<>>)>>, <<Details("", "HA0")>>)}
PageFaqShapes ==
    {NoFaqMarkup,
     FaqShape(<<Container(TRUE, TRUE, <<Question("PQ1", TRUE, "PA1", "")>>)>>, <<>>),
     FaqShape(<<>>, <<Details("PQ2", "PA2")>>),
     FaqShape(<<Container(FALSE, TRUE, <<Question("", TRUE, "PA0", "")>>)>>, <<>>)}

ShortText == <<Run("w", 2)>>
PlainPage(strings) == Page("text", <<>>, <<>>, strings, <<>>, <<>>)
FaqPage(shape) == Page("text", <<>>, <<>>, ShortText, shape.containers, shape.details)

\* Homepages
RoleAnchors ==
    <<Anchor(LblPrivacy, HrefPrivacy), Anchor(LblReturns, HrefReturns),
      Anchor(LblContact, HrefContact), Anchor(LblAbout, HrefAbout),
      Anchor(LblFaq, HrefFaq)>>
PolicyAnchors ==
    <<Anchor(LblPrivacy, HrefPrivacy), Anchor(LblReturns, HrefReturns),
      Anchor(LblContact, HrefContact), Anchor(LblAbout, HrefAbout)>>
InfoAnchors == <<Anchor(LblAbout, HrefAbout), Anchor(LblContact, HrefContact)>>

HomePage(title, anchors, body, shape) ==
    Page(title, anchors, body, ShortText, shape.containers, shape.details)
BareHome == HomePage("text", <<>>, <<>>, NoFaqMarkup)

\* The statuses a fetch may end with besides a transport failure: success,
\* a final 3xx (no error for raise_for_status, no 200 for a probe), an error.
OkStatuses == {200, 304}
ErrorResponses == {Failure, HtmlResponse(404, NoDoc)}
Served(docs) == {HtmlResponse(st, d) : st \in OkStatuses, d \in docs}

\* Catalog bodies
Products(records) == [t |-> "dict", hasProducts |-> TRUE, ptype |-> "list", products |-> records]
NullProducts == [t |-> "dict", hasProducts |-> TRUE, ptype |-> "null", products |-> <<>>]
NoProductsMember == [t |-> "dict", hasProducts |-> FALSE, ptype |-> "list", products |-> <<>>]
JsonArray == [t |-> "list", hasProducts |-> FALSE, ptype |-> "list", products |-> <<>>]
GoodRecord(id) == Record(id, VariantList(<<Variant(Price("numstr", 5))>>))

\* -- the environment of Spec: every outcome of every fetch, on a homepage
\*    that links all roles or none
OutcomeHomes ==
    ErrorResponses
    \cup Served({HomePage("text", a, <<>>, s) : a \in {<<>>, RoleAnchors}, s \in HomeFaqShapes})
    \cup Served({HomePage("nostring", <<>>, <<>>, NoFaqMarkup),
                 HomePage("absent", <<>>, <<>>, NoFaqMarkup)})
OutcomeCatalogs ==
    {Failure, JsonResponse(404, NoJson), JsonResponse(200, NoJson),
     JsonResponse(200, Products(<<GoodRecord(1)>>)),
     JsonResponse(200, Products(<<GoodRecord(1), Record(2, NoVariants("str"))>>))}
OutcomeProbes == {Failure, HtmlResponse(404, NoDoc), HtmlResponse(200, PlainPage(ShortText))}
OutcomePages ==
    {Failure, HtmlResponse(404, NoDoc),
     HtmlResponse(200, PlainPage(ShortText)), HtmlResponse(200, PlainPage(<<>>))}
OutcomeFaqPages ==
    ErrorResponses \cup {HtmlResponse(200, FaqPage(s)) : s \in PageFaqShapes}

OutcomeEnv ==
    [homes |-> OutcomeHomes, catalogs |-> OutcomeCatalogs, probes |-> OutcomeProbes,
     policy_pages |-> OutcomePages, info_pages |-> OutcomePages,
     faq_pages |-> OutcomeFaqPages]

Spec == Init /\ [][Next(OutcomeEnv)]_vars

\* -- the environment of SpecCatalog: catalogs of every record shape, on a
\*    homepage without links whose other fetches all fail
PriceValues ==
    {Price("absent", 0), Price("null", 0), Price("numstr", 5), Price("num", 9),
     Price("badstr", 0), Price("emptystr", 0)}
VariantValues == {Variant(p) : p \in PriceValues} \cup {BadVariant}
VariantsValues ==
    {VariantList(vs) : vs \in SeqsUpTo(VariantValues, MaxVariants)}
    \cup {NoVariants(t) : t \in {"absent", "null", "str"}}
RecordShapes ==
    {Record(0, vs) : vs \in VariantsValues} \cup {BadRecord(0)}

\* The catalogs of k records, numbered 1..k, of which record i has the shape r
\* and the others are plain.
CatalogWith(k, i, r) ==
    [j \in 1..k |-> IF j = i THEN [r EXCEPT !.id = j] ELSE GoodRecord(j)]
CatalogValues ==
    {<<>>} \cup {CatalogWith(k, i, r) : k \in 1..MaxRecords, i \in 1..MaxRecords, r \in RecordShapes}

RejectedBodies ==
    {Failure, JsonResponse(404, Products(<<GoodRecord(1)>>)), JsonResponse(200, NoJson),
     JsonResponse(200, JsonArray), JsonResponse(200, NoProductsMember),
     JsonResponse(304, Products(<<GoodRecord(1)>>))}

CatalogEnv ==
    [homes |-> ErrorResponses \cup Served({BareHome}),
     catalogs |-> RejectedBodies \cup {JsonResponse(200, NullProducts)}
                  \cup {JsonResponse(200, Products(c)) : c \in CatalogValues},
     probes |-> {Failure},
     policy_pages |-> {Failure}, info_pages |-> {Failure}, faq_pages |-> {Failure}]

SpecCatalog == Init /\ [][Next(CatalogEnv)]_vars

\* -- the environment of SpecRoles: homepages of up to MaxLinks anchors
AnchorVocabulary ==
    {Anchor(LblPrivacy, HrefHelp), Anchor(LblShop, HrefPrivacy),
     Anchor(LblReturns, HrefHelp), Anchor(LblRefund, HrefHelp),
     Anchor(LblShop, HrefReturn), Anchor(LblShop, HrefReturns), Anchor(LblShop, HrefRefund),
     Anchor(LblContact, HrefHelp), Anchor(LblShop, HrefContact),
     Anchor(LblAbout, HrefHelp), Anchor(<<>>, HrefExternal),
     Anchor(LblTrack, HrefHelp), Anchor(LblOrder, HrefHelp),
     Anchor(LblShop, HrefTrack), Anchor(<<>>, HrefOrder),
     Anchor(LblBlog, HrefHelp), Anchor(LblShop, HrefBlogs), Anchor(LblShop, HrefBlogsUpper),
     Anchor(LblFaq, HrefHelp), Anchor(LblShop, HrefFaq),
     Anchor(LblShop, HrefFragment), Anchor(LblShop, HrefShop)}

RolesEnv ==
    [homes |-> {Failure} \cup
               {HtmlResponse(200, HomePage("text", a, <<>>, NoFaqMarkup)) :
                    a \in SeqsUpTo(AnchorVocabulary, MaxLinks)},
     catalogs |-> {Failure},
     probes |-> {HtmlResponse(404, NoDoc)},
     policy_pages |-> {HtmlResponse(200, PlainPage(ShortText))},
     info_pages |-> {HtmlResponse(200, PlainPage(ShortText))},
     faq_pages |-> {HtmlResponse(200, FaqPage(NoFaqMarkup))}]

SpecRoles == Init /\ [][Next(RolesEnv)]_vars

\* -- the environment of SpecPages: secondary pages of every length
PageTexts ==
    {<<>>, ShortText, <<Run("w", TextTokenLimit + 1)>>, <<Run("L", 1)>>,
     <<Run("w", 3), Run("L", 1), Run("w", 3)>>}
TextPages == ErrorResponses \cup Served({PlainPage(t) : t \in PageTexts})

PagesEnv ==
    [homes |-> ErrorResponses \cup
               Served({HomePage("text", a, <<>>, NoFaqMarkup) : a \in {<<>>, PolicyAnchors}}),
     catalogs |-> {Failure},
     probes |-> OutcomeProbes,
     policy_pages |-> TextPages, info_pages |-> TextPages,
     faq_pages |-> {Failure}]

SpecPages == Init /\ [][Next(PagesEnv)]_vars

\* -- the environment of SpecContacts: homepage bodies of up to MaxMatches
\*    tokens, about and contact pages that repeat and add values
MatchTokens == {"a@x.io", "b@x.io", "5551234567", "12345", "2024"}
BodyValues == SeqsUpTo({Run(t, 1) : t \in MatchTokens}, MaxMatches)
InfoTexts ==
    {<<>>, <<Run("a@x.io", 2)>>, <<Run("b@x.io", 1), Run("a@x.io", 1)>>,
     <<Run("5551234567", 1), Run("b@x.io", 1), Run("2024", 1)>>,
     <<Run("w", TextTokenLimit), Run("a@x.io", 1)>>}

ContactsEnv ==
    [homes |-> {Failure} \cup
               {HtmlResponse(200, HomePage("text", a, b, NoFaqMarkup)) :
                    a \in {<<>>, InfoAnchors}, b \in BodyValues},
     catalogs |-> {Failure},
     probes |-> {Failure},
     policy_pages |-> {Failure},
     info_pages |-> ErrorResponses \cup {HtmlResponse(200, PlainPage(t)) : t \in InfoTexts},
     faq_pages |-> {Failure}]

SpecContacts == Init /\ [][Next(ContactsEnv)]_vars

\* ---------------------------------------------------------------- claims

\* What the claims read off the log of fetches.
IsStep(step, e) == e.step = step
Entries(step) == SelectSeq(requests, LAMBDA e : IsStep(step, e))
Fetched(step) == Len(Entries(step)) >= 1
Request(step) == Entries(step)[1]
Answer(step) == Request(step).resp

\* A fetch that failed for the caller of safe_get: no response, or an error status.
ErrorOutcome(resp) == resp.status = 0 \/ resp.status \in 400..599

Running == result = "none"
PrivacyCandidate == urljoin(base, PathPrivacyPolicy)
ReturnsCandidate == urljoin(base, PathRefundPolicy)

\* C1 as stated: a homepage fetch that fails, by a transport failure or any
\* status outside 2xx, ends the extraction at once with the "unreachable"
\* failure: nothing else is fetched and no profile is built.
C1_AsStated ==
    (Fetched("home") /\ (Answer("home").status = 0 \/ Answer("home").status \notin 200..299))
        => /\ pc = "done"
           /\ result = "unreachable"
           /\ Len(requests) = 1
           /\ products = <<>> /\ important = EmptyDict /\ raw_pages = EmptyDict

\* C1, amended: the same for a transport failure or a 4xx/5xx status (the
\* statuses raise_for_status raises for); and only such a homepage fetch is
\* answered "unreachable".
C1_UnreachableAborts ==
    /\ (Fetched("home") /\ ErrorOutcome(Answer("home")))
         => /\ pc = "done"
            /\ result = "unreachable"
            /\ Len(requests) = 1
            /\ products = <<>> /\ important = EmptyDict /\ raw_pages = EmptyDict
    /\ result = "unreachable" => (Fetched("home") /\ ErrorOutcome(Answer("home")))

C1_Witness ==
    /\ pc = "done" /\ result = "unreachable"
    /\ Len(requests) = 1 /\ Answer("home").status = 404

\* C2 as stated: once the homepage was fetched and parsed and the secondary
\* fetches began, the extraction ends with a profile, whatever the secondary
\* fetches answer.
C2_AsStated ==
    (pc = "done" /\ Len(requests) >= 2) => result = "profile"

\* C3 as stated: a catalog whose records are all maps, one of them with
\* variants or prices of an unexpected shape, still gives a profile with one
\* entry per record, the malformed record with null prices.
C3_AsStated ==
    (/\ pc = "done" /\ Len(requests) >= 2
     /\ products_raw.ptype = "list"
     /\ \A i \in 1..Len(products_raw.products) : products_raw.products[i].t = "dict")
        => /\ result = "profile"
           /\ Len(products) = Len(products_raw.products)
           /\ \A i \in 1..Len(products) :
                PriceDerivationRaises(products_raw.products[i])
                    => products[i].price_min = NoPrice /\ products[i].price_max = NoPrice

\* A response with status 200 whose body is a JSON object that has "products".
AcceptedBody(resp) ==
    resp.status = 200 /\ resp.json.t = "dict" /\ resp.json.hasProducts

ParseablePrices(variants) ==
    {variants[j].price.v : j \in {k \in 1..Len(variants) : variants[k].price.t \in {"numstr", "num"}}}

\* C5 as stated: price_min and price_max of every product are the minimum and
\* maximum of its parseable variant prices, null and unparseable prices being
\* ignored; both are absent exactly when no variant has a parseable price;
\* price_min <= price_max when both are present.
C5_AsStated ==
    \A i \in 1..Len(products) :
        LET parseable == ParseablePrices(products[i].variants)
            lo == products[i].price_min
            hi == products[i].price_max
        IN  /\ lo.some <=> parseable # {}
            /\ hi.some <=> parseable # {}
            /\ parseable # {} =>
                 /\ \A x \in parseable : lo.v <= x /\ x <= hi.v
                 /\ lo.v \in parseable /\ hi.v \in parseable
            /\ (lo.some /\ hi.some) => lo.v <= hi.v

\* The text-bearing roles: the key of each in the profile's maps, the step
\* that fetches its page, and the URL the role resolved to.
TextRoles == {"privacy_policy", "return_refund_policy", "contact", "about"}
StepOf(role) ==
    CASE role = "privacy_policy" -> "privacy_text"
      [] role = "return_refund_policy" -> "returns_text"
      [] role = "contact" -> "contact_text"
      [] role = "about" -> "about_text"
UrlOf(role) ==
    CASE role = "privacy_policy" -> privacy_url
      [] role = "return_refund_policy" -> returns_url
      [] role = "contact" -> contact_url
      [] role = "about" -> about_url

\* The role's page was resolved and its fetch succeeded.
PageFetched(role) ==
    UrlOf(role) # None /\ Fetched(StepOf(role)) /\ ~ErrorOutcome(Answer(StepOf(role)))

\* The visible text of the role's page, as the pipeline reads it.
PageText(role) == TakeTokens(Answer(StepOf(role)).doc.strings, TextTokenLimit)

\* The role's entry of raw_pages is the page text cut to RawPageLimit characters.
HasRawEntry(role) ==
    /\ role \in DOMAIN raw_pages
    /\ raw_pages[role].of = PageText(role)
    /\ raw_pages[role].len <= RawPageLimit
    /\ raw_pages[role].len = CharLen(PageText(role)) \/ raw_pages[role].len = RawPageLimit
    /\ raw_pages[role].len <= CharLen(PageText(role))

\* C6 as stated: in a returned profile, every text-bearing role whose page
\* was resolved and fetched has its entry in raw_pages, the page text cut to
\* at most 5000 characters.
C6_AsStated ==
    result = "profile" =>
        \A role \in TextRoles : PageFetched(role) => HasRawEntry(role)

\* C6, amended: the same for every such page whose visible text is not
\* empty; a role in important_links whose page was fetched with a non-empty
\* text has its raw_pages entry.
C6_RawPages ==
    result = "profile" =>
        /\ \A role \in TextRoles :
             (PageFetched(role) /\ PageText(role) # <<>>) => HasRawEntry(role)
        /\ \A role \in TextRoles \cap DOMAIN important :
             (PageFetched(role) /\ PageText(role) # <<>>) => role \in DOMAIN raw_pages

C6_Witness ==
    /\ result = "profile"
    /\ PageFetched("privacy_policy")
    /\ CharLen(PageText("privacy_policy")) > RawPageLimit
    /\ "privacy_policy" \in DOMAIN important
    /\ raw_pages["privacy_policy"].len = RawPageLimit
    /\ PageFetched("about") /\ "about" \in DOMAIN raw_pages

\* The rule of a fallback probe: at most one request, to the candidate path,
\* made only with the role unresolved; the role's URL afterwards is the
\* candidate on a 200 and None otherwise; the extraction is not aborted.
ProbeRule(step, candidate, url, unresolved) ==
    /\ Len(Entries(step)) <= 1
    /\ Fetched(step) =>
         /\ unresolved
         /\ Request(step).url = candidate
         /\ url = (IF Answer(step).status = 200 THEN candidate ELSE None)
         /\ result \in {"none", "profile"}
         /\ pc = "done" => result = "profile"
    /\ url = candidate => (Fetched(step) /\ Answer(step).status = 200)

\* C7: each fallback path (/policies/privacy-policy, /policies/refund-policy)
\* is probed at most once, and only when the scan of the homepage links left
\* its role unresolved; the path becomes the role's URL only on a 200; any
\* other outcome of the probe leaves the role unresolved and the extraction
\* goes on to a profile.
C7_FallbackProbes ==
    /\ ProbeRule("privacy_probe", PrivacyCandidate, privacy_url,
                 \A i \in 1..Len(nav_links) :
                     /\ ~Contains(KwPrivacy, Lower(nav_links[i].key))
                     /\ ~Contains(KwPrivacy, Lower(nav_links[i].url)))
    /\ ProbeRule("returns_probe", ReturnsCandidate, returns_url,
                 LastMatching(nav_links, "returns") = None)

C7_Witness ==
    /\ pc = "done" /\ result = "profile"
    /\ Fetched("privacy_probe") /\ Answer("privacy_probe").status = 404
    /\ privacy_url = None
    /\ Fetched("returns_probe") /\ Answer("returns_probe").status = 200
    /\ returns_url = ReturnsCandidate

\* A document with no "faq" container and no details element.
NoMarkup(doc) == doc.containers = <<>> /\ doc.details = <<>>

\* C8: the pairs of a resolved FAQ page are the result whenever that page
\* was fetched and gave at least one pair; otherwise the result is what the
\* homepage gives; a resolved FAQ page is always fetched; and the result is
\* empty when no document read has a "faq" container or a details element.
C8_FaqPrecedence ==
    pc \in {"assemble", "done"} /\ result # "unreachable" /\ result # "internal" =>
        LET pagePairs == IF Fetched("faq_page") /\ ~ErrorOutcome(Answer("faq_page"))
                         THEN extract_faqs_from_page(Answer("faq_page").doc)
                         ELSE <<>>
        IN  /\ faq_url # None <=> Fetched("faq_page")
            /\ (\E i \in 1..Len(nav_links) :
                    Contains(KwFaq, Lower(nav_links[i].key))) => Fetched("faq_page")
            /\ pagePairs # <<>> => faqs = pagePairs
            /\ pagePairs = <<>> => faqs = extract_faqs_from_page(soup)
            /\ (NoMarkup(soup) /\ (Fetched("faq_page") => NoMarkup(Answer("faq_page").doc)))
                  => faqs = <<>>

C8_Witness ==
    /\ pc = "done" /\ result = "profile"
    /\ Fetched("faq_page")
    /\ extract_faqs_from_page(Answer("faq_page").doc) # <<>>
    /\ extract_faqs_from_page(soup) # <<>>
    /\ faqs = extract_faqs_from_page(Answer("faq_page").doc)
    /\ faqs # extract_faqs_from_page(soup)

\* What the contact claim reads: the values of a list, the tokens of a text,
\* the tokens of a page that was fetched and read.
Values(list) == {list[i] : i \in 1..Len(list)}
NoDuplicate(list) == \A i, j \in 1..Len(list) : list[i] = list[j] => i = j
TokensOf(text) == {text[i].tok : i \in 1..Len(text)}
ReadText(step) ==
    IF Fetched(step) /\ ~ErrorOutcome(Answer(step))
    THEN TokensOf(TakeTokens(Answer(step).doc.strings, TextTokenLimit))
    ELSE {}

\* C9: in a returned profile the two contact lists have no duplicate, hold
\* every e-mail and every phone (six digits or more) of the homepage's raw
\* body whatever the about and contact fetches did, and hold nothing but
\* values of the homepage and of the about and contact pages that were read.
C9_Contacts ==
    result = "profile" =>
        LET home == TokensOf(soup.body)
            pages == ReadText("about_text") \cup ReadText("contact_text")
        IN  /\ NoDuplicate(contacts.emails) /\ NoDuplicate(contacts.phones)
            /\ home \cap EmailTokens \subseteq Values(contacts.emails)
            /\ home \cap {"5551234567"} \subseteq Values(contacts.phones)
            /\ Values(contacts.emails) = (home \cup pages) \cap EmailTokens
            /\ Values(contacts.phones) = (home \cup pages) \cap {"5551234567"}

C9_Witness ==
    /\ result = "profile"
    /\ Fetched("contact_text") /\ ErrorOutcome(Answer("contact_text"))
    /\ Fetched("about_text") /\ ReadText("about_text") = {"a@x.io", "b@x.io"}
    /\ TokensOf(soup.body) = {"a@x.io", "5551234567"}
    /\ Len(contacts.emails) = 2 /\ Len(contacts.phones) = 1

\* The role scans.  Rule(role, key, url) says whether a link of the
\* index, with its key (the label, or the URL of an unlabelled link) and its
\* URL, is given the role; the role's URL is that of the last such link
\* (the first for faq), None without one.
RoleUrls(Rule(_, _, _)) ==
    LET hits(role) == {i \in 1..Len(nav_links) : Rule(role, nav_links[i].key, nav_links[i].url)}
        last(role) == IF hits(role) = {} THEN None
                      ELSE nav_links[CHOOSE i \in hits(role) : \A j \in hits(role) : j <= i].url
        first(role) == IF hits(role) = {} THEN None
                       ELSE nav_links[CHOOSE i \in hits(role) : \A j \in hits(role) : i <= j].url
    IN  /\ pc = "privacy_probe" =>
              privacy_url = last("privacy") /\ returns_url = last("returns")
        /\ pc = "about_text" =>
              /\ contact_url = last("contact") /\ about_url = last("about")
              /\ tracking_url = last("tracking") /\ blogs = last("blog")
        /\ pc = "faq_home" => faq_url = first("faq")

Either(kw, key, url) == Contains(kw, Lower(key)) \/ Contains(kw, Lower(url))

\* The rule as stated: every role matches its keywords in the lower-cased
\* label and in the lower-cased URL alike.
RuleAsStated(role, key, url) ==
    CASE role = "privacy" -> Either(KwPrivacy, key, url)
      [] role = "returns" -> Either(KwReturn, key, url) \/ Either(KwRefund, key, url)
      [] role = "contact" -> Either(KwContact, key, url)
      [] role = "about" -> Either(KwAbout, key, url)
      [] role = "tracking" -> Either(KwTrack, key, url) \/ Either(KwOrder, key, url)
      [] role = "blog" -> Contains(KwBlog, Lower(key)) \/ Contains(KwBlogsPath, Lower(url))
      [] role = "faq" -> Contains(KwFaq, Lower(key)) \/ Contains(KwFaqPath, Lower(url))

\* C10 as stated: a link is given a role when its lower-cased label or its
\* lower-cased URL contains a keyword of the role, for every role alike.
C10_AsStated == RoleUrls(RuleAsStated)

\* The rule of the source.
RuleOfCode(role, key, url) ==
    CASE role = "privacy" -> Either(KwPrivacy, key, url)
      [] role = "returns" ->
            \/ Contains(KwReturn, Lower(key)) \/ Contains(KwRefund, Lower(key))
            \/ Contains(KwRefund, Lower(url)) \/ Contains(KwReturns, Lower(url))
      [] role = "contact" -> Either(KwContact, key, url)
      [] role = "about" -> Either(KwAbout, key, url)
      [] role = "tracking" -> Contains(KwTrack, Lower(key)) \/ Contains(KwOrder, Lower(key))
      [] role = "blog" -> Contains(KwBlog, Lower(key)) \/ Contains(KwBlogsPath, url)
      [] role = "faq" -> Contains(KwFaq, Lower(key)) \/ Contains(KwFaqPath, Lower(url))

\* C10, amended: privacy, contact, about and faq as stated; returns matches
\* "return" or "refund" in the label, "refund" or "returns" in the URL;
\* tracking matches the label only; blog matches "/blogs" in the URL as
\* written, without lower-casing it.
C10_RoleScans == RoleUrls(RuleOfCode)

C10_Witness ==
    /\ pc = "about_text"
    /\ Len(nav_links) = 2
    /\ nav_links[1].url = base \o HrefTrack /\ tracking_url = None
    /\ nav_links[2].url = HrefExternal /\ about_url = HrefExternal
====
